---- MODULE Spec2Model ----
(***************************************************************************)
(* The solo consenter of orderer/consensus/solo/consensus.go: one chain    *)
(* with its unbuffered admission channel (sendChan), its exit channel      *)
(* (exitChan), the callers of Order/Configure/Halt, and the sequencing     *)
(* loop chain.main with its batch timer, driving the block cutter and the  *)
(* ledger writer of its ConsenterSupport.                                  *)
(***************************************************************************)
EXTENDS Naturals, Sequences, FiniteSets

(* --------------------------------------- bounds and configuration --- *)

\* Goroutines that call Order or Configure, one call each.
NumCallers == 2

\* Goroutines that call Halt, one call each.
NumHalters == 2

\* BatchSize.MaxMessageCount of the channel configuration the cutter reads.
MaxMessageCount == 3

\* BatchSize.PreferredMaxBytes of the channel configuration the cutter reads.
PreferredMaxBytes == 3

Callers == 1..NumCallers

Halters == 1..NumHalters

(* --------------------------------------------------------- envelopes --- *)

\* Header types of an envelope. MALFORMED stands for an envelope whose
\* channel header cannot be extracted, UNSUPPORTED for a header the
\* classifier rejects.
NormalTypes == {"MESSAGE"}

ConfigResultTypes == {"CONFIG", "ORDERER_TRANSACTION"}

BrokenTypes == {"UNSUPPORTED", "MALFORMED"}

HeaderTypes == NormalTypes \cup ConfigResultTypes \cup {"CONFIG_UPDATE"} \cup BrokenTypes

\* Message sizes in bytes: small, exactly the preferred maximum, above it.
Sizes == {1, PreferredMaxBytes, PreferredMaxBytes + 1}

NoEnv == [id |-> 0, api |-> "none", type |-> "none", size |-> 0]

Env(i, a, t, s) == [id |-> i, api |-> a, type |-> t, size |-> s]

VARIABLES
    callPc,      \* per caller: "idle", "waiting" (in Order's select), "ok", "err"
    callEnv,     \* per caller: the envelope it hands to Order
    haltPc,      \* per halter: "idle", "close" (took default), "done", "panicked"
    exitClosed,  \* exitChan is closed
    closes,      \* number of close(exitChan) executed without panic
    loopPc,      \* chain.main: "new", "select", "handle", "exited", "panicked"
    cur,         \* msg, the envelope main received and has not handled yet
    timer,       \* main's timer: "nil", "armed" (not elapsed), "ready" (elapsed)
    pending,     \* the block cutter's pending batch
    blocks,      \* the ledger: blocks in write order
    received,    \* history: envelopes main received from sendChan, in order
    validated    \* history: received envelopes that passed ProcessNormalMsg, in order

\* The system channel's message processor (SystemChannel), upstream of the
\* chain.
VARIABLES
    sysSeq,      \* support.Sequence(): the system channel's configuration sequence
    proc         \* the call of the processor in progress and its result

soloVars == <<callPc, callEnv, haltPc, exitClosed, closes, loopPc, cur, timer,
              pending, blocks, received, validated>>

sysVars == <<sysSeq, proc>>

vars == <<callPc, callEnv, haltPc, exitClosed, closes, loopPc, cur, timer,
          pending, blocks, received, validated, sysSeq, proc>>

\* A panic (logger.Panicf in main, close of a closed channel in Halt) aborts
\* the process: nothing runs afterwards.
Aborted == loopPc = "panicked" \/ \E h \in Halters : haltPc[h] = "panicked"

(* ------------------------------------------------------ collaborators --- *)

\* utils.ChannelHeader(msg): fails on an envelope whose header cannot be read.
ChannelHeaderErr(msg) == msg.type = "MALFORMED"

\* support.ClassifyMsg(chdr): CONFIG_UPDATE is ConfigUpdateMsg, every other
\* recognized type is NormalMsg, an unsupported type is an error.
ClassifyMsg(type) ==
    CASE type = "CONFIG_UPDATE" -> "ConfigUpdateMsg"
      [] type = "UNSUPPORTED"   -> "error"
      [] OTHER                  -> "NormalMsg"

RECURSIVE Bytes(_)
\* The cutter's pendingBatchSizeBytes: the sizes of a batch summed.
Bytes(batch) ==
    IF batch = <<>> THEN 0 ELSE Head(batch).size + Bytes(Tail(batch))

\* BlockCutter().Cut(): the pending batch, which becomes empty.
Cut(pend) == [batch |-> pend, pending |-> <<>>]

\* BlockCutter().Ordered(msg): the completed batches, in order, and the batch
\* left pending. A message above the preferred size is isolated in a batch
\* of its own after the pending one; a message that would overflow the
\* preferred size cuts the pending batch first; reaching the message count
\* cuts the batch the message joined. ok is always true.
Ordered(pend, msg) ==
    IF msg.size > PreferredMaxBytes
    THEN [batches |-> (IF pend # <<>> THEN <<pend>> ELSE <<>>) \o <<(<<msg>>)>>,
          pending |-> <<>>,
          ok      |-> TRUE]
    ELSE LET overflow == Bytes(pend) + msg.size > PreferredMaxBytes
             first    == IF overflow THEN <<pend>> ELSE <<>>
             joined   == (IF overflow THEN <<>> ELSE pend) \o <<msg>>
         IN  IF Len(joined) >= MaxMessageCount
             THEN [batches |-> first \o <<joined>>, pending |-> <<>>, ok |-> TRUE]
             ELSE [batches |-> first, pending |-> joined, ok |-> TRUE]

\* CreateNextBlock(batch) followed by WriteBlock or WriteConfigBlock: the
\* block as the ledger holds it. via names the statement of main that wrote it.
Block(write, via, batch) == [write |-> write, via |-> via, envs |-> batch]

(* --------------------------------------------------------------- Init --- *)

\* newChain: both channels open, nobody has called anything; main's timer
\* is nil and the cutter and the ledger are empty.
(* ------------------------------------- system channel processor: data --- *)

\* The configuration sequence is a counter; the model stops committing at MaxSeq.
MaxSeq == 3

\* s.support.ChainID() of the system channel, fixed at construction.
SystemChannelID == "system"

\* What the header of a submitted envelope can hold as its channel: the system
\* channel, a channel that does not exist yet, or nothing readable.
TargetChannels == {SystemChannelID, "newchan", "unreadable"}

\* utils.ChannelID(msg): the channel of the header, or an error.
ChannelIDErr(ch) == ch = "unreadable"

\* A result (envelope or nil, configSeq, error); env is <<>> for nil.
Result(env, seq, err) == [env |-> env, seq |-> seq, err |-> err]

NoResult == Result(<<>>, 0, "none")

\* utils.CreateSignedEnvelope(type, channelID, signer, data, version, epoch):
\* an envelope of that header type, addressed to that channel, embedding data.
CreateSignedEnvelope(type, channelID, data) ==
    [type |-> type, chan |-> channelID, payload |-> data]

\* StandardChannel.ProcessNormalMsg: the sequence validated against, or a
\* rejection.
StdProcessNormalMsg(seq) ==
    {Result(<<>>, seq, "nil")}
        \cup {Result(<<>>, q, "ErrValidation") : q \in {0, seq}}

\* StandardChannel.ProcessConfigUpdateMsg: a CONFIG-typed result for the
\* channel with the sequence the update was applied to, or a rejection.
StdProcessConfigUpdateMsg(seq) ==
    {Result(<<CreateSignedEnvelope("CONFIG", SystemChannelID, <<>>)>>, seq, "nil"),
     Result(<<>>, 0, "ErrValidation")}

\* The steps of the channel-creation path, in the order of the code.
CreationSteps ==
    <<"NewChannelConfig", "ProposeConfigUpdate", "SignConfig", "SignOrdererTx">>

IdleProc ==
    [pc |-> "idle", op |-> "none", chan |-> "none", steps |-> <<>>,
     seqUsed |-> 0, stdRes |-> NoResult, inner |-> <<>>, wrapped |-> <<>>,
     res |-> NoResult]

Init ==
    /\ callPc = [c \in Callers |-> "idle"]
    /\ callEnv = [c \in Callers |-> NoEnv]
    /\ haltPc = [h \in Halters |-> "idle"]
    /\ exitClosed = FALSE
    /\ closes = 0
    /\ loopPc = "new"
    /\ cur = NoEnv
    /\ timer = "nil"
    /\ pending = <<>>
    /\ blocks = <<>>
    /\ received = <<>>
    /\ validated = <<>>
    /\ sysSeq = 0
    /\ proc = IdleProc

(* ------------------------------------------------------------ callers --- *)

\* Callers start in the order of their numbers (envelope ids are arbitrary).
MayStart(c) ==
    /\ callPc[c] = "idle"
    /\ \A d \in Callers : d < c => callPc[d] # "idle"

\* A caller enters Order(env) and blocks in its select.
OrderCall(c, type, size) ==
    /\ ~Aborted
    /\ MayStart(c)
    /\ callPc' = [callPc EXCEPT ![c] = "waiting"]
    /\ callEnv' = [callEnv EXCEPT ![c] = Env(c, "Order", type, size)]
    /\ UNCHANGED <<haltPc, exitClosed, closes, loopPc, cur, timer, pending,
                   blocks, received, validated>>
    /\ UNCHANGED sysVars

\* A caller enters Configure(configUpdate, config): it is Order(config).
ConfigureCall(c, type) ==
    /\ ~Aborted
    /\ MayStart(c)
    /\ callPc' = [callPc EXCEPT ![c] = "waiting"]
    /\ callEnv' = [callEnv EXCEPT ![c] = Env(c, "Configure", type, 1)]
    /\ UNCHANGED <<haltPc, exitClosed, closes, loopPc, cur, timer, pending,
                   blocks, received, validated>>
    /\ UNCHANGED sysVars

\* Mutant of OrderExitReady: Order gives up without the exit channel closed.
OrderExitAlwaysReady == TRUE

\* Order's case <-ch.exitChan: ready once the exit channel is closed.
OrderExitReady == exitClosed

\* Order returns the error "Exiting".
OrderExit(c) ==
    /\ ~Aborted
    /\ callPc[c] = "waiting"
    /\ OrderExitReady
    /\ callPc' = [callPc EXCEPT ![c] = "err"]
    /\ UNCHANGED <<callEnv, haltPc, exitClosed, closes, loopPc, cur, timer,
                   pending, blocks, received, validated>>
    /\ UNCHANGED sysVars

(* --------------------------------------------------------------- Halt --- *)

\* Mutant of HaltSeesClosed: Halt closes without looking at the exit channel.
HaltNeverSeesClosed == FALSE

\* Halt's select: whether case <-ch.exitChan is taken rather than default.
HaltSeesClosed == exitClosed

\* Halt's select. With the exit channel closed Halt returns; otherwise it
\* takes the default branch and is about to close the channel. Halters
\* start in the order of their numbers (they are interchangeable).
HaltSelect(h) ==
    /\ ~Aborted
    /\ haltPc[h] = "idle"
    /\ \A g \in Halters : g < h => haltPc[g] # "idle"
    /\ haltPc' = [haltPc EXCEPT ![h] = IF HaltSeesClosed THEN "done" ELSE "close"]
    /\ UNCHANGED <<callPc, callEnv, exitClosed, closes, loopPc, cur, timer,
                   pending, blocks, received, validated>>
    /\ UNCHANGED sysVars

\* close(ch.exitChan): closing a closed channel panics.
HaltClose(h) ==
    /\ ~Aborted
    /\ haltPc[h] = "close"
    /\ IF exitClosed
       THEN /\ haltPc' = [haltPc EXCEPT ![h] = "panicked"]
            /\ UNCHANGED <<exitClosed, closes>>
       ELSE /\ haltPc' = [haltPc EXCEPT ![h] = "done"]
            /\ exitClosed' = TRUE
            /\ closes' = closes + 1
    /\ UNCHANGED <<callPc, callEnv, loopPc, cur, timer, pending, blocks,
                   received, validated>>
    /\ UNCHANGED sysVars

\* Mutant of ErroredReady: Errored returns a channel that is never closed.
ErroredNeverReady == FALSE

\* Errored(): the exit channel; a receive from it is ready once it is closed.
ErroredReady == exitClosed

(* --------------------------------------------------------------- main --- *)

\* Start(): go ch.main().
Start ==
    /\ ~Aborted
    /\ loopPc = "new"
    /\ loopPc' = "select"
    /\ UNCHANGED <<callPc, callEnv, haltPc, exitClosed, closes, cur, timer,
                   pending, blocks, received, validated>>
    /\ UNCHANGED sysVars

\* The rendezvous on sendChan: Order's case ch.sendChan <- env and main's
\* case msg := <-ch.sendChan happen together; Order returns nil.
MainRecv(c) ==
    /\ ~Aborted
    /\ loopPc = "select"
    /\ callPc[c] = "waiting"
    /\ loopPc' = "handle"
    /\ cur' = callEnv[c]
    /\ received' = Append(received, callEnv[c])
    /\ callPc' = [callPc EXCEPT ![c] = "ok"]
    /\ UNCHANGED <<callEnv, haltPc, exitClosed, closes, timer, pending,
                   blocks, validated>>
    /\ UNCHANGED sysVars

\* The class main switches on, or "panic" when header extraction or
\* classification fails.
ClassOf(msg) ==
    IF ChannelHeaderErr(msg) \/ ClassifyMsg(msg.type) = "error"
    THEN "panic"
    ELSE ClassifyMsg(msg.type)

\* logger.Panicf on a header or classification error, or on a class that is
\* neither ConfigUpdateMsg nor NormalMsg.
MainPanic ==
    /\ ~Aborted
    /\ loopPc = "handle"
    /\ ClassOf(cur) \notin {"ConfigUpdateMsg", "NormalMsg"}
    /\ loopPc' = "panicked"
    /\ UNCHANGED <<callPc, callEnv, haltPc, exitClosed, closes, cur, timer,
                   pending, blocks, received, validated>>
    /\ UNCHANGED sysVars

\* Mutant of MainDiscard: a header or classification error is handled as a
\* failed validation, the message is dropped and main goes on.
MainDiscardAnyClass ==
    /\ ~Aborted
    /\ loopPc = "handle"
    /\ loopPc' = "select"
    /\ cur' = NoEnv
    /\ UNCHANGED <<callPc, callEnv, haltPc, exitClosed, closes, timer,
                   pending, blocks, received, validated>>
    /\ UNCHANGED sysVars

\* Mutant of MainDiscard: the rejected message stays with the cutter.
MainDiscardPends ==
    /\ ~Aborted
    /\ loopPc = "handle"
    /\ ClassOf(cur) \in {"ConfigUpdateMsg", "NormalMsg"}
    /\ loopPc' = "select"
    /\ cur' = NoEnv
    /\ pending' = Append(pending, cur)
    /\ UNCHANGED <<callPc, callEnv, haltPc, exitClosed, closes, timer,
                   blocks, received, validated>>
    /\ UNCHANGED sysVars

\* ProcessNormalMsg(msg) returned an error: the message is discarded.
MainDiscard ==
    /\ ~Aborted
    /\ loopPc = "handle"
    /\ ClassOf(cur) \in {"ConfigUpdateMsg", "NormalMsg"}
    /\ loopPc' = "select"
    /\ cur' = NoEnv
    /\ UNCHANGED <<callPc, callEnv, haltPc, exitClosed, closes, timer,
                   pending, blocks, received, validated>>
    /\ UNCHANGED sysVars

\* Mutant of ConfigWrites: the config block is written before the cut batch.
ConfigWritesConfigFirst(batch, msg) ==
    <<Block("WriteConfigBlock", "config", <<msg>>)>>
        \o (IF batch # <<>> THEN <<Block("WriteBlock", "cut", batch)>> ELSE <<>>)

\* The blocks the ConfigUpdateMsg case writes: the cut batch if there is
\* one, then the message alone through WriteConfigBlock.
ConfigWrites(batch, msg) ==
    (IF batch # <<>> THEN <<Block("WriteBlock", "cut", batch)>> ELSE <<>>)
        \o <<Block("WriteConfigBlock", "config", <<msg>>)>>

\* Mutant of TimerAfterConfig: the timer is left as it was.
TimerAfterConfigKept(t) == t

\* timer = nil at the end of the ConfigUpdateMsg case.
TimerAfterConfig(t) == "nil"

\* case msgprocessor.ConfigUpdateMsg, ProcessNormalMsg succeeded.
MainConfig ==
    /\ ~Aborted
    /\ loopPc = "handle"
    /\ ClassOf(cur) = "ConfigUpdateMsg"
    /\ validated' = Append(validated, cur)
    /\ blocks' = blocks \o ConfigWrites(Cut(pending).batch, cur)
    /\ pending' = Cut(pending).pending
    /\ timer' = TimerAfterConfig(timer)
    /\ loopPc' = "select"
    /\ cur' = NoEnv
    /\ UNCHANGED <<callPc, callEnv, haltPc, exitClosed, closes, received>>
    /\ UNCHANGED sysVars

\* for _, batch := range batches: one WriteBlock per batch, in order.
OrderedWrites(batches) ==
    [i \in 1..Len(batches) |-> Block("WriteBlock", "ordered", batches[i])]

\* Mutant of TimerAfterOrdered: every message that completes no batch
\* starts a new timer.
TimerAfterOrderedRearm(t, ok, batches) ==
    IF ok /\ Len(batches) = 0
    THEN "armed"
    ELSE IF Len(batches) > 0 THEN "nil" ELSE t

\* Mutant of TimerAfterOrdered: the timer is never armed.
TimerAfterOrderedNoArm(t, ok, batches) ==
    IF Len(batches) > 0 THEN "nil" ELSE t

\* Mutant of TimerAfterOrdered: the timer is not cleared by a completed batch.
TimerAfterOrderedNoClear(t, ok, batches) ==
    IF ok /\ Len(batches) = 0 /\ t = "nil" THEN "armed" ELSE t

\* The timer after Ordered returned (batches, ok): armed when nothing
\* completed and no timer runs, cleared when a batch completed.
TimerAfterOrdered(t, ok, batches) ==
    IF ok /\ Len(batches) = 0 /\ t = "nil"
    THEN "armed"
    ELSE IF Len(batches) > 0 THEN "nil" ELSE t

\* case msgprocessor.NormalMsg, ProcessNormalMsg succeeded.
MainNormal ==
    /\ ~Aborted
    /\ loopPc = "handle"
    /\ ClassOf(cur) = "NormalMsg"
    /\ validated' = Append(validated, cur)
    /\ LET r == Ordered(pending, cur)
       IN  /\ pending' = r.pending
           /\ blocks' = blocks \o OrderedWrites(r.batches)
           /\ timer' = TimerAfterOrdered(timer, r.ok, r.batches)
    /\ loopPc' = "select"
    /\ cur' = NoEnv
    /\ UNCHANGED <<callPc, callEnv, haltPc, exitClosed, closes, received>>
    /\ UNCHANGED sysVars

\* time.After(BatchTimeout): the timeout elapses and the timer channel
\* becomes ready.
TimerElapse ==
    /\ ~Aborted
    /\ timer = "armed"
    /\ timer' = "ready"
    /\ UNCHANGED <<callPc, callEnv, haltPc, exitClosed, closes, loopPc, cur,
                   pending, blocks, received, validated>>
    /\ UNCHANGED sysVars

\* The block the timer case writes, none when the cut is empty.
TimerWrites(batch) ==
    IF Len(batch) = 0 THEN <<>> ELSE <<Block("WriteBlock", "timer", batch)>>

\* Mutant of MainTimer: the timer case runs whether or not main is in its
\* select, as a timer callback outside the loop would.
MainTimerOutsideLoop ==
    /\ ~Aborted
    /\ loopPc \in {"select", "exited"}
    /\ timer = "ready"
    /\ timer' = "nil"
    /\ blocks' = blocks \o TimerWrites(Cut(pending).batch)
    /\ pending' = Cut(pending).pending
    /\ UNCHANGED <<callPc, callEnv, haltPc, exitClosed, closes, loopPc, cur,
                   received, validated>>
    /\ UNCHANGED sysVars

\* Mutant of MainTimer: the timer case forgets to clear the timer.
MainTimerKeepsTimer ==
    /\ ~Aborted
    /\ loopPc = "select"
    /\ timer = "ready"
    /\ blocks' = blocks \o TimerWrites(Cut(pending).batch)
    /\ pending' = Cut(pending).pending
    /\ UNCHANGED <<callPc, callEnv, haltPc, exitClosed, closes, loopPc, cur,
                   timer, received, validated>>
    /\ UNCHANGED sysVars

\* case <-timer.
MainTimer ==
    /\ ~Aborted
    /\ loopPc = "select"
    /\ timer = "ready"
    /\ timer' = "nil"
    /\ blocks' = blocks \o TimerWrites(Cut(pending).batch)
    /\ pending' = Cut(pending).pending
    /\ UNCHANGED <<callPc, callEnv, haltPc, exitClosed, closes, loopPc, cur,
                   received, validated>>
    /\ UNCHANGED sysVars

\* main's case <-ch.exitChan: ready once the exit channel is closed.
MainExitReady == exitClosed

\* case <-ch.exitChan: main returns.
MainExit ==
    /\ ~Aborted
    /\ loopPc = "select"
    /\ MainExitReady
    /\ loopPc' = "exited"
    /\ UNCHANGED <<callPc, callEnv, haltPc, exitClosed, closes, cur, timer,
                   pending, blocks, received, validated>>
    /\ UNCHANGED sysVars

(* ------------------------------------------------------ specification --- *)

Next ==
    \/ \E c \in Callers, s \in Sizes : OrderCall(c, "MESSAGE", s)
    \/ \E c \in Callers, t \in {"CONFIG_UPDATE"} \cup BrokenTypes : OrderCall(c, t, 1)
    \/ \E c \in Callers, t \in ConfigResultTypes : ConfigureCall(c, t)
    \/ \E c \in Callers : OrderExit(c)
    \/ \E h \in Halters : HaltSelect(h)
    \/ \E h \in Halters : HaltClose(h)
    \/ Start
    \/ \E c \in Callers : MainRecv(c)
    \/ MainPanic
    \/ MainDiscard
    \/ MainConfig
    \/ MainNormal
    \/ TimerElapse
    \/ MainTimer
    \/ MainExit

Spec == Init /\ [][Next]_vars

(* ---------------------------------- system channel processor: actions --- *)

\* The system channel's configuration is committed by the rest of the orderer
\* while the processor runs: Sequence() goes up by one.
CommitConfig ==
    /\ sysSeq < MaxSeq
    /\ sysSeq' = sysSeq + 1
    /\ UNCHANGED <<proc, soloVars>>

\* The outcome of SystemChannel.ProcessNormalMsg for a header channel ch,
\* where std is what StandardChannel.ProcessNormalMsg would return: the
\* standard processor's result as seen by the caller, and the result returned.
NormalOutcomeNoCheck(ch, std) ==
    IF ChannelIDErr(ch)
    THEN [stdRes |-> NoResult, res |-> Result(<<>>, 0, "ErrBadChannelID")]
    ELSE [stdRes |-> std, res |-> std]

NormalOutcome(ch, std) ==
    IF ChannelIDErr(ch)
    THEN [stdRes |-> NoResult, res |-> Result(<<>>, 0, "ErrBadChannelID")]
    ELSE IF ch # SystemChannelID
    THEN [stdRes |-> NoResult, res |-> Result(<<>>, 0, "ErrChannelDoesNotExist")]
    ELSE [stdRes |-> std, res |-> std]

\* SystemChannel.ProcessNormalMsg(msg), from call to return.
ProcessNormalMsg(ch) ==
    /\ proc.pc \in {"idle", "done"}
    /\ \E std \in StdProcessNormalMsg(sysSeq) :
         proc' = [IdleProc EXCEPT !.pc = "done", !.op = "ProcessNormalMsg",
                                  !.chan = ch,
                                  !.stdRes = NormalOutcome(ch, std).stdRes,
                                  !.res = NormalOutcome(ch, std).res]
    /\ UNCHANGED <<sysSeq, soloVars>>

\* SystemChannel.ProcessConfigUpdateMsg(envConfigUpdate) is entered.
PCUCall(ch) ==
    /\ proc.pc \in {"idle", "done"}
    /\ proc' = [IdleProc EXCEPT !.pc = "channelID",
                                !.op = "ProcessConfigUpdateMsg", !.chan = ch]
    /\ UNCHANGED <<sysSeq, soloVars>>

\* Mutant of FailStep: the failed call returns the envelope built so far.
FailStepReturnsPartial(p, step, err) ==
    [p EXCEPT !.pc = "done", !.steps = Append(@, step),
              !.res = Result(p.inner, 0, err)]

\* A step of the call failed: return nil, 0, err.
FailStep(p, step, err) ==
    [p EXCEPT !.pc = "done", !.steps = Append(@, step),
              !.res = Result(<<>>, 0, err)]

\* Which header channels take the channel-creation path.
CreatesChannelAlways(ch) == TRUE

CreatesChannel(ch) == ch # SystemChannelID

\* utils.ChannelID, then the delegation to the standard processor when the
\* envelope is addressed to the system channel itself.
PCUChannelID ==
    /\ proc.pc = "channelID"
    /\ IF ChannelIDErr(proc.chan)
       THEN proc' = [proc EXCEPT !.pc = "done",
                                 !.res = Result(<<>>, 0, "ErrBadChannelID")]
       ELSE IF CreatesChannel(proc.chan)
       THEN proc' = [proc EXCEPT !.pc = "newChannelConfig"]
       ELSE \E std \in StdProcessConfigUpdateMsg(sysSeq) :
              proc' = [proc EXCEPT !.pc = "done", !.stdRes = std, !.res = std]
    /\ UNCHANGED <<sysSeq, soloVars>>

\* systemChannelSupport.NewChannelConfig(envConfigUpdate): the template is
\* built from the system channel's configuration in effect now.
PCUNewChannelConfig(ok) ==
    /\ proc.pc = "newChannelConfig"
    /\ proc' = IF ok
               THEN [proc EXCEPT !.pc = "propose", !.seqUsed = sysSeq,
                                 !.steps = Append(@, "NewChannelConfig")]
               ELSE FailStep(proc, "NewChannelConfig", "ErrNewChannelConfig")
    /\ UNCHANGED <<sysSeq, soloVars>>

\* ctxm.ProposeConfigUpdate(envConfigUpdate) on the template.
PCUPropose(ok) ==
    /\ proc.pc = "propose"
    /\ proc' = IF ok
               THEN [proc EXCEPT !.pc = "signConfig",
                                 !.steps = Append(@, "ProposeConfigUpdate")]
               ELSE FailStep(proc, "ProposeConfigUpdate", "ErrProposeConfigUpdate")
    /\ UNCHANGED <<sysSeq, soloVars>>

\* The envelope that carries the new channel's configuration.
NewChannelEnvConfig(channelID) ==
    CreateSignedEnvelope("CONFIG", channelID, <<>>)

\* CreateSignedEnvelope(CONFIG, channelID, ...).
PCUSignConfig(ok) ==
    /\ proc.pc = "signConfig"
    /\ proc' = IF ok
               THEN [proc EXCEPT !.pc = "signOrdererTx",
                                 !.steps = Append(@, "SignConfig"),
                                 !.inner = <<NewChannelEnvConfig(proc.chan)>>]
               ELSE FailStep(proc, "SignConfig", "ErrSignConfig")
    /\ UNCHANGED <<sysSeq, soloVars>>

\* The envelope that wraps the new channel's configuration envelope.
WrappedOrdererTransactionToTarget(inner) ==
    CreateSignedEnvelope("ORDERER_TRANSACTION", inner[1].chan, inner)

WrappedOrdererTransaction(inner) ==
    CreateSignedEnvelope("ORDERER_TRANSACTION", SystemChannelID, inner)

\* CreateSignedEnvelope(ORDERER_TRANSACTION, s.support.ChainID(), ...).
PCUSignOrdererTx(ok) ==
    /\ proc.pc = "signOrdererTx"
    /\ proc' = IF ok
               THEN [proc EXCEPT !.pc = "return",
                                 !.steps = Append(@, "SignOrdererTx"),
                                 !.wrapped = <<WrappedOrdererTransaction(proc.inner)>>]
               ELSE FailStep(proc, "SignOrdererTx", "ErrSignOrdererTx")
    /\ UNCHANGED <<sysSeq, soloVars>>

\* return wrappedOrdererTransaction, s.support.Sequence(), nil
PCUReturn ==
    /\ proc.pc = "return"
    /\ proc' = [proc EXCEPT !.pc = "done",
                            !.res = Result(proc.wrapped, sysSeq, "nil")]
    /\ UNCHANGED <<sysSeq, soloVars>>

SysNext ==
    \/ CommitConfig
    \/ \E ch \in TargetChannels : ProcessNormalMsg(ch)
    \/ \E ch \in TargetChannels : PCUCall(ch)
    \/ PCUChannelID
    \/ \E ok \in BOOLEAN : PCUNewChannelConfig(ok)
    \/ \E ok \in BOOLEAN : PCUPropose(ok)
    \/ \E ok \in BOOLEAN : PCUSignConfig(ok)
    \/ \E ok \in BOOLEAN : PCUSignOrdererTx(ok)
    \/ PCUReturn

SysSpec == Init /\ [][SysNext]_vars

(* ----------------------------------------------- fair specification --- *)

\* The chain fed by an upstream that keeps its contract: every envelope
\* handed to Order or Configure has a header that parses and classifies, so
\* main never takes a panic branch.
LiveNext ==
    \/ \E c \in Callers, s \in Sizes : OrderCall(c, "MESSAGE", s)
    \/ \E c \in Callers : OrderCall(c, "CONFIG_UPDATE", 1)
    \/ \E c \in Callers, t \in ConfigResultTypes : ConfigureCall(c, t)
    \/ \E c \in Callers : OrderExit(c)
    \/ \E h \in Halters : HaltSelect(h)
    \/ \E h \in Halters : HaltClose(h)
    \/ Start
    \/ \E c \in Callers : MainRecv(c)
    \/ MainDiscard
    \/ MainConfig
    \/ MainNormal
    \/ TimerElapse
    \/ MainTimer
    \/ MainExit

\* Fair scheduling: a goroutine that can take its step takes it (a caller
\* whose exit case is ready, a Halt that chose to close, main handling the
\* envelope it received), and a select whose exit case is ready again and
\* again chooses it in the end (Go picks among ready cases at random).
\* Nothing makes anyone call Order, Configure, Halt or Start.
Fairness ==
    /\ \A c \in Callers : WF_vars(OrderExit(c))
    /\ \A h \in Halters : WF_vars(HaltClose(h))
    /\ WF_vars(MainDiscard \/ MainConfig \/ MainNormal)
    /\ SF_vars(MainExit)

LiveSpec == Init /\ [][LiveNext]_vars /\ Fairness

\* Some goroutine has called Halt.
HaltCalled == \E h \in Halters : haltPc[h] # "idle"

\* C11 (as stated): once Halt has been called, every Order and Configure call
\* in progress, or made later, returns (nil or an error), and a started
\* sequencing loop terminates.
C11_HaltUnblocksEveryone ==
    /\ \A c \in Callers :
         (HaltCalled /\ callPc[c] = "waiting") ~> (callPc[c] \in {"ok", "err"})
    /\ (HaltCalled /\ loopPc \in {"select", "handle"}) ~> (loopPc = "exited")

\* The same, in the executions where no Halt runs into the double close of
\* C4: there the claim holds.
C11_HoldsWithoutDoubleClose ==
    ([]~Aborted) => C11_HaltUnblocksEveryone

(* ------------------------------------------------- helpers of claims --- *)

RECURSIVE Flatten(_)
\* The envelopes of a sequence of blocks, concatenated in write order.
Flatten(bs) ==
    IF bs = <<>> THEN <<>> ELSE Head(bs).envs \o Flatten(Tail(bs))

\* The number of positions of seq that hold the envelope with this id.
Count(seq, id) == Cardinality({i \in 1..Len(seq) : seq[i].id = id})

\* sub is seq with some elements left out, order kept (ids are unique in seq).
IsSubSeq(sub, seq) ==
    /\ \A i \in 1..Len(sub) : \E j \in 1..Len(seq) : seq[j] = sub[i]
    /\ \A i, j \in 1..Len(sub) :
         i < j => \E k, l \in 1..Len(seq) : k < l /\ seq[k] = sub[i] /\ seq[l] = sub[j]

(* ----------------------------------------------------------------- C1 --- *)

\* C1: the envelopes of the blocks written so far, concatenated in write
\* order and followed by the cutter's pending batch, are exactly the
\* envelopes that were handed to the loop and passed re-validation, in
\* hand-off order; no envelope occurs twice in the blocks.
C1_BlocksArePrefixOfValidated ==
    /\ Flatten(blocks) \o pending = validated
    /\ IsSubSeq(validated, received)
    /\ \A c \in Callers : Count(Flatten(blocks), c) <= 1
    /\ \A c \in Callers : Count(received, c) <= 1

\* C1 witness: a block holds two envelopes in hand-off order, which is not
\* the order in which their calls started.
C1_Witness ==
    \E i \in 1..Len(blocks) :
        /\ Len(blocks[i].envs) = 2
        /\ blocks[i].envs[1].id > blocks[i].envs[2].id

(* ----------------------------------------------------------------- C2 --- *)

\* C2: every envelope admitted through Configure that is in a block is alone
\* in that block, and the block was written through WriteConfigBlock.
C2_ConfigureEnvelopeIsolated ==
    \A i \in 1..Len(blocks) :
        (\E j \in 1..Len(blocks[i].envs) : blocks[i].envs[j].api = "Configure")
            => /\ Len(blocks[i].envs) = 1
               /\ blocks[i].write = "WriteConfigBlock"

(* ----------------------------------------------------------------- C3 --- *)

\* The step in which main finishes the ConfigUpdateMsg case for a message
\* that passed re-validation.
ConfigAcceptedStep ==
    /\ loopPc = "handle"
    /\ ClassOf(cur) = "ConfigUpdateMsg"
    /\ validated' = Append(validated, cur)

\* C3: accepting a ConfigUpdateMsg appends to the ledger the pending batch
\* as one WriteBlock block (if there is a pending batch) and then a
\* WriteConfigBlock block holding the message alone; afterwards nothing is
\* pending and the timer is nil.
C3_ConfigFlushesThenOwnBlock ==
    [][ConfigAcceptedStep =>
        LET n == Len(blocks)
            k == IF pending = <<>> THEN 0 ELSE 1
        IN  /\ Len(blocks') = n + k + 1
            /\ SubSeq(blocks', 1, n) = blocks
            /\ k = 1 => /\ blocks'[n + 1].write = "WriteBlock"
                        /\ blocks'[n + 1].envs = pending
            /\ blocks'[n + k + 1].write = "WriteConfigBlock"
            /\ blocks'[n + k + 1].envs = <<cur>>
            /\ pending' = <<>>
            /\ timer' = "nil"
    ]_vars

\* C3 witness: a config block follows the block of the flushed batch, and
\* nothing is pending and no timer runs.
C3_Witness ==
    /\ Len(blocks) >= 2
    /\ blocks[Len(blocks)].via = "config"
    /\ blocks[Len(blocks) - 1].via = "cut"
    /\ pending = <<>>
    /\ timer = "nil"

(* ----------------------------------------------------------------- C4 --- *)

\* C4: no Halt call panics, and once a Halt call has returned the exit
\* channel has been closed exactly once.
C4_HaltClosesOnceNoPanic ==
    /\ \A h \in Halters : haltPc[h] # "panicked"
    /\ (\E h \in Halters : haltPc[h] = "done") => closes = 1

(* ----------------------------------------------------------------- C5 --- *)

\* C5: a Halt call that starts after another Halt call has returned returns
\* at once, closes nothing and changes nothing else of the chain.
C5_SecondHaltIsNoOp ==
    [][\A h \in Halters :
          (/\ haltPc[h] = "idle"
           /\ haltPc'[h] # "idle"
           /\ \E g \in Halters : haltPc[g] = "done")
          => /\ haltPc'[h] = "done"
             /\ exitClosed /\ exitClosed'
             /\ closes' = closes
             /\ UNCHANGED <<callPc, callEnv, loopPc, cur, timer, pending,
                            blocks, received, validated>>
    ]_vars

\* C5 witness: two Halt calls have returned and the channel was closed once.
C5_Witness ==
    /\ Cardinality({h \in Halters : haltPc[h] = "done"}) >= 2
    /\ closes = 1
    /\ exitClosed

(* ----------------------------------------------------------------- C6 --- *)

\* C6: Errored() is ready exactly when a Halt call has closed the exit
\* channel; every returned Halt call leaves it ready; once ready it stays
\* ready.
C6_ErroredIffHalted ==
    /\ [](ErroredReady <=> closes >= 1)
    /\ []((\E h \in Halters : haltPc[h] = "done") => ErroredReady)
    /\ [][ErroredReady => ErroredReady']_vars

\* C6 witness: Errored() is ready while main has not yet taken its exit case.
C6_Witness ==
    /\ ErroredReady
    /\ closes = 1
    /\ loopPc = "select"

(* ----------------------------------------------------------------- C7 --- *)

\* Everything validated so far is a window of normal messages below the
\* cutter's thresholds: at least one and fewer than MaxMessageCount
\* messages, of no more than PreferredMaxBytes together.
WindowBelowThreshold ==
    /\ Len(validated) >= 1
    /\ Len(validated) < MaxMessageCount
    /\ Bytes(validated) <= PreferredMaxBytes
    /\ \A i \in 1..Len(validated) : ClassOf(validated[i]) = "NormalMsg"

\* The step in which main takes its timer case.
TimerCaseStep == loopPc = "select" /\ timer = "ready" /\ timer' = "nil"

\* C7: while the validated messages are a window below the thresholds and
\* main has not taken its timer case, no block is written, the messages
\* are all pending and the timer runs; when main then takes the timer
\* case it writes exactly one block, holding exactly these messages in
\* admission order.
C7_TimeoutCutsTheWindow ==
    /\ []((WindowBelowThreshold /\ \A i \in 1..Len(blocks) : blocks[i].via # "timer")
            => /\ blocks = <<>>
               /\ pending = validated
               /\ timer # "nil")
    /\ [][(WindowBelowThreshold /\ blocks = <<>> /\ TimerCaseStep)
            => /\ Len(blocks') = 1
               /\ blocks'[1].write = "WriteBlock"
               /\ blocks'[1].envs = validated
               /\ pending' = <<>>
       ]_vars

\* C7 witness: two normal messages, fewer than MaxMessageCount, were cut by
\* the timer into the only block.
C7_Witness ==
    /\ WindowBelowThreshold
    /\ Len(validated) = 2
    /\ Len(blocks) = 1
    /\ blocks[1].via = "timer"
    /\ blocks[1].envs = validated
    /\ validated[1].id < validated[2].id

(* ----------------------------------------------------------------- C8 --- *)

\* The step in which main finishes the NormalMsg case for a message that
\* passed re-validation.
NormalAcceptedStep ==
    /\ loopPc = "handle"
    /\ ClassOf(cur) = "NormalMsg"
    /\ validated' = Append(validated, cur)

\* C8: when Ordered returns completed batches, main appends exactly one
\* WriteBlock block per batch, in the order returned, and the timer is nil
\* afterwards; a nil timer is armed again only by a later accepted normal
\* message that completes no batch, and only a ready timer makes main
\* write a timer block.
C8_CompletedBatchesClearTimer ==
    /\ [][(NormalAcceptedStep /\ Ordered(pending, cur).batches # <<>>)
            => LET bs == Ordered(pending, cur).batches
               IN  /\ Len(blocks') = Len(blocks) + Len(bs)
                   /\ SubSeq(blocks', 1, Len(blocks)) = blocks
                   /\ \A i \in 1..Len(bs) :
                        /\ blocks'[Len(blocks) + i].write = "WriteBlock"
                        /\ blocks'[Len(blocks) + i].envs = bs[i]
                   /\ timer' = "nil"
       ]_vars
    /\ [][(timer = "nil" /\ timer' # "nil")
            => /\ NormalAcceptedStep
               /\ Ordered(pending, cur).batches = <<>>
               /\ timer' = "armed"
       ]_vars
    /\ [][(Len(blocks') > Len(blocks) /\ blocks'[Len(blocks')].via = "timer")
            => timer = "ready"
       ]_vars

\* C8 witness: a message above the preferred size arrived while a smaller
\* one was pending with its timer: Ordered returned two batches, both are
\* written in order and the timer is nil.
C8_Witness ==
    /\ Len(blocks) = 2
    /\ blocks[1].via = "ordered"
    /\ blocks[2].via = "ordered"
    /\ blocks[1].envs[1].size <= PreferredMaxBytes
    /\ blocks[2].envs[1].size > PreferredMaxBytes
    /\ pending = <<>>
    /\ timer = "nil"

(* ----------------------------------------------------------------- C9 --- *)

\* The envelope with this id is in some block.
InBlocks(id) == Count(Flatten(blocks), id) > 0

\* C9: a call has returned nil exactly when main received its envelope,
\* and main received it once; a call has returned an error only with the
\* exit channel closed, and its envelope was never received and is in no
\* block; main holds at most one received envelope unhandled, the last one
\* it received.
C9_OrderIsRendezvous ==
    /\ \A c \in Callers :
         /\ callPc[c] = "ok" <=> Count(received, c) = 1
         /\ Count(received, c) <= 1
         /\ callPc[c] = "err" => /\ exitClosed
                                 /\ Count(received, c) = 0
                                 /\ ~InBlocks(c)
    /\ \A i \in 1..Len(received) : received[i] = callEnv[received[i].id]
    /\ loopPc = "handle" => /\ received # <<>>
                            /\ cur = received[Len(received)]
    /\ loopPc \in {"new", "select", "exited"} => cur = NoEnv

\* C9 witness: one call returned nil and its envelope is in a block, another
\* returned an error.
C9_Witness ==
    \E c, d \in Callers :
        /\ callPc[c] = "ok"
        /\ InBlocks(c)
        /\ callPc[d] = "err"

(* ---------------------------------------------------------------- C10 --- *)

\* C10 as stated: once a Halt call has returned, no block is written and no
\* Order or Configure call returns nil.
C10_NothingAfterHaltReturns ==
    [][(\E h \in Halters : haltPc[h] = "done")
         => /\ blocks' = blocks
            /\ \A c \in Callers : callPc'[c] = "ok" => callPc[c] = "ok"
    ]_vars

\* C10 as amended: once main has taken its exit case, no block is written
\* and no Order or Configure call returns nil; main takes the exit case
\* only with the exit channel closed.
C10_NothingAfterMainExits ==
    /\ [](loopPc = "exited" => exitClosed)
    /\ [][loopPc = "exited"
            => /\ blocks' = blocks
               /\ pending' = pending
               /\ \A c \in Callers : callPc'[c] = "ok" => callPc[c] = "ok"
       ]_vars

\* C10 witness: main has exited with a ready timer and a pending batch, and
\* a call that was waiting has returned an error.
C10_Witness ==
    /\ loopPc = "exited"
    /\ timer = "ready"
    /\ pending # <<>>
    /\ \E c \in Callers : callPc[c] = "err"

(* ---------------------------------------------------------------- C12 --- *)

\* Envelope e was received by main and dropped by a failed re-validation.
Discarded(e) ==
    /\ \E i \in 1..Len(received) : received[i] = e
    /\ \A i \in 1..Len(validated) : validated[i] # e
    /\ ClassOf(e) # "panic"
    /\ cur # e

\* The step in which main finishes an envelope of a valid class without
\* accepting it.
DiscardStep ==
    /\ loopPc = "handle"
    /\ ClassOf(cur) # "panic"
    /\ loopPc' # loopPc
    /\ validated' = validated

\* C12: an envelope that fails re-validation (either class) is in no block
\* and not pending, at any later time; the step that discards it leaves the
\* blocks, the pending batch and the timer as they were and takes main back
\* to its select, where later envelopes are received.
C12_DiscardLeavesNoTrace ==
    /\ [](\A i \in 1..Len(received) :
            Discarded(received[i]) =>
                /\ ~InBlocks(received[i].id)
                /\ Count(pending, received[i].id) = 0)
    /\ [][DiscardStep =>
            /\ blocks' = blocks
            /\ pending' = pending
            /\ timer' = timer
            /\ loopPc' = "select"]_vars

\* The first envelope main received was discarded, and the one received
\* after it is in a block.
C12_Witness ==
    /\ Len(received) = 2
    /\ Discarded(received[1])
    /\ InBlocks(received[2].id)

(* ---------------------------------------------------------------- C13 --- *)

\* A call of ProcessConfigUpdateMsg has returned.
PCUDone == proc.pc = "done" /\ proc.op = "ProcessConfigUpdateMsg"

\* The call is for a readable channel other than the system channel.
OnCreationPath == ~ChannelIDErr(proc.chan) /\ proc.chan # SystemChannelID

\* C13: a successful ProcessConfigUpdateMsg for another channel returns an
\* ORDERER_TRANSACTION envelope addressed to the system channel that embeds
\* a CONFIG envelope addressed to the requested channel, with the value
\* Sequence() has when the call returns, and never calls the standard
\* processor; for the system channel it returns exactly what
\* StandardChannel.ProcessConfigUpdateMsg returned and takes no creation step.
C13_ChannelCreationIsWrapped ==
    /\ [](PCUDone /\ OnCreationPath /\ proc.res.err = "nil" =>
            /\ Len(proc.res.env) = 1
            /\ proc.res.env[1].type = "ORDERER_TRANSACTION"
            /\ proc.res.env[1].chan = SystemChannelID
            /\ Len(proc.res.env[1].payload) = 1
            /\ proc.res.env[1].payload[1].type = "CONFIG"
            /\ proc.res.env[1].payload[1].chan = proc.chan
            /\ proc.steps = CreationSteps
            /\ proc.stdRes = NoResult)
    /\ [][proc.pc = "return" /\ proc'.pc = "done" =>
            proc'.res.seq = sysSeq /\ sysSeq' = sysSeq]_vars
    /\ [](PCUDone /\ proc.chan = SystemChannelID =>
            /\ \E q \in 0..sysSeq : proc.stdRes \in StdProcessConfigUpdateMsg(q)
            /\ proc.res = proc.stdRes
            /\ proc.steps = <<>>)

\* A channel creation has succeeded after the system channel's configuration
\* was committed at least once.
C13_Witness ==
    /\ PCUDone
    /\ proc.chan = "newchan"
    /\ proc.res.err = "nil"
    /\ proc.res.seq >= 1

(* ---------------------------------------------------------------- C14 --- *)

\* A call of SystemChannel.ProcessNormalMsg has returned.
PNMDone == proc.pc = "done" /\ proc.op = "ProcessNormalMsg"

\* C14: ProcessNormalMsg for a channel other than the system channel returns
\* (0, ErrChannelDoesNotExist) and the standard processor is not called; for
\* the system channel it returns exactly the (configSeq, error) that
\* StandardChannel.ProcessNormalMsg returned.
C14_NormalForOtherChannelRejected ==
    /\ PNMDone /\ OnCreationPath =>
         /\ proc.res = Result(<<>>, 0, "ErrChannelDoesNotExist")
         /\ proc.stdRes = NoResult
    /\ PNMDone /\ proc.chan = SystemChannelID =>
         /\ \E q \in 0..sysSeq : proc.stdRes \in StdProcessNormalMsg(q)
         /\ proc.res = proc.stdRes

\* A normal message for a channel that does not exist was rejected while the
\* system channel's sequence was not 0.
C14_Witness ==
    /\ PNMDone
    /\ proc.chan = "newchan"
    /\ proc.res.err = "ErrChannelDoesNotExist"
    /\ sysSeq >= 1

(* ---------------------------------------------------------------- C15 --- *)

\* The error each step of the channel-creation path returns when it fails.
StepErr(step) ==
    CASE step = "NewChannelConfig" -> "ErrNewChannelConfig"
      [] step = "ProposeConfigUpdate" -> "ErrProposeConfigUpdate"
      [] step = "SignConfig" -> "ErrSignConfig"
      [] step = "SignOrdererTx" -> "ErrSignOrdererTx"

\* C15: a ProcessConfigUpdateMsg that is not for the system channel and
\* fails returns (nil, 0, err); the steps it performed are the steps of the
\* path up to the one that failed and no later one (no envelope is built
\* after the failure, the standard processor is not called); no step of a
\* call changes the system channel's sequence, and a returned call takes no
\* further step.
C15_FailedCreationStopsClean ==
    /\ [](PCUDone /\ proc.chan # SystemChannelID /\ proc.res.err # "nil" =>
            /\ proc.res.env = <<>>
            /\ proc.res.seq = 0
            /\ proc.stdRes = NoResult
            /\ proc.wrapped = <<>>
            /\ IF ChannelIDErr(proc.chan)
               THEN proc.steps = <<>> /\ proc.res.err = "ErrBadChannelID"
               ELSE /\ Len(proc.steps) \in 1..Len(CreationSteps)
                    /\ proc.steps = SubSeq(CreationSteps, 1, Len(proc.steps))
                    /\ proc.res.err = StepErr(proc.steps[Len(proc.steps)])
                    /\ Len(proc.steps) <= 3 => proc.inner = <<>>)
    /\ [][proc' # proc => sysSeq' = sysSeq]_vars
    /\ [][PCUDone /\ proc' # proc => proc'.steps = <<>>]_vars

\* The assembly of the outer envelope failed, after the three steps before
\* it succeeded, with the system channel's sequence above 0.
C15_Witness ==
    /\ PCUDone
    /\ proc.res.err = "ErrSignOrdererTx"
    /\ Len(proc.steps) = 4
    /\ sysSeq >= 1

(* ---------------------------------------------------------------- C16 --- *)

\* C16 (as stated): the configSeq a successful channel creation returns is
\* the sequence the system channel's configuration had when the template
\* was built from it, whatever is committed before the call returns.
C16_SeqIsTheOneUsed ==
    PCUDone /\ OnCreationPath /\ proc.res.err = "nil" =>
        proc.res.seq = proc.seqUsed

(* ---------------------------------------------------------------- C17 --- *)

\* C17 (as stated): whenever main waits in its select with at least one
\* envelope pending in the cutter, the batch timer is active.
C17_PendingImpliesTimer ==
    loopPc = "select" /\ pending # <<>> => timer # "nil"

(* ---------------------------------------------------------------- C18 --- *)

\* C18: while the timer is active (armed or expired and not yet served)
\* the cutter has something pending; so main's timer case always finds a
\* batch and writes it as a block, and its branch for an empty batch is
\* never taken.
C18_TimerImpliesPending ==
    /\ [](timer # "nil" => pending # <<>>)
    /\ [][TimerCaseStep =>
            /\ pending # <<>>
            /\ Len(blocks') = Len(blocks) + 1
            /\ blocks'[Len(blocks')].envs = pending
            /\ TimerWrites(Cut(pending).batch) # <<>>]_vars

\* The timer case has written a block, and a timer runs again for a later
\* envelope.
C18_Witness ==
    /\ \E i \in 1..Len(blocks) : blocks[i].via = "timer"
    /\ timer # "nil"
    /\ pending # <<>>

(* ---------------------------------------------------------------- C19 --- *)

\* main holds a received envelope whose header does not parse or does not
\* classify.
HoldsBroken == loopPc \in {"handle", "panicked"} /\ ClassOf(cur) = "panic"

\* C19: an envelope whose header extraction or classification fails is
\* never dropped with main going on: it stays the envelope main holds, the
\* only step main takes with it is the panic, which writes nothing, and the
\* panicked state is final for the whole process; the envelope is in no
\* block, not pending and not validated, so it and all envelopes after it
\* are never written.
C19_BrokenEnvelopeAborts ==
    /\ [](\A i \in 1..Len(received) :
            ClassOf(received[i]) = "panic" =>
                /\ i = Len(received)
                /\ cur = received[i]
                /\ HoldsBroken
                /\ ~InBlocks(received[i].id)
                /\ Count(pending, received[i].id) = 0
                /\ Count(validated, received[i].id) = 0)
    /\ [][HoldsBroken =>
            /\ loopPc' \in {loopPc, "panicked"}
            /\ cur' = cur
            /\ blocks' = blocks
            /\ pending' = pending
            /\ received' = received]_vars
    /\ [][loopPc = "panicked" => UNCHANGED vars]_vars

\* main panicked on the first envelope it received while another call was
\* waiting to hand its envelope over.
C19_Witness ==
    /\ loopPc = "panicked"
    /\ Len(received) = 1
    /\ \E c \in Callers : callPc[c] = "waiting"

(* ---------------------------------------------------------------- C20 --- *)

\* C20: a timer is started only by the step that accepts a validated normal
\* message which the cutter takes without completing a batch, and only when
\* no timer is active; accepting such a message while a timer is active
\* (running or already expired) leaves the timer as it is.
C20_TimerArmedOnceAWindow ==
    /\ [][timer' = "armed" /\ timer # "armed" =>
            /\ NormalAcceptedStep
            /\ Ordered(pending, cur).ok
            /\ Ordered(pending, cur).batches = <<>>
            /\ timer = "nil"]_vars
    /\ [][NormalAcceptedStep /\ Ordered(pending, cur).batches = <<>>
            /\ timer # "nil" => timer' = timer]_vars

\* A second message joined the window after its timer had expired and
\* before main served it: the timer is still the expired one.
C20_Witness ==
    /\ timer = "ready"
    /\ Len(pending) = 2
    /\ blocks = <<>>

====
